---- MODULE Spec2Model ----
(***************************************************************************)
(* Snapshot loader and validator of the ledger (netsync/snapshot.go).      *)
(*                                                                         *)
(* loadSnapshot reads the metadata record, rebuilds the state views from   *)
(* the trie records (loadState), validates the chain of block trios        *)
(* (checkSnapshot), stores the non-tail trios and the tail blocks.         *)
(*                                                                         *)
(* Byte strings are sequences of numbers.  A Merkle root is a collision    *)
(* free code of the set of leaves of a view; a block hash is a collision   *)
(* free code of the header fields.                                         *)
(***************************************************************************)
EXTENDS Integers, Sequences, FiniteSets, TLC

(***************************************************************************)
(* Bounds of the model.                                                    *)
(***************************************************************************)
\* number of trie records read from one snapshot file
MaxRecords == 7
\* number of views open at the same time
MaxDepth == 2
\* number of places in which the tail trio differs from the reference chain
MaxTampered == 1
\* number of calls made on a chain
MaxOps == 4

(***************************************************************************)
(* Program constants.                                                      *)
(***************************************************************************)
genesisBlockHeight == 0
\* core.SVStart and core.SVEnd
SVStart == 248
SVEnd == 249

NoErr == "nil"
ErrUnhandled == "Still some storeview unhandled"
ErrMissing == "Missing storeview to handle"
\* the two places that return it: for an SVEnd and for a leaf
ErrMissingAtEnd == ErrMissing
ErrMissingAtLeaf == ErrMissing
ErrHeights == "Storeview start and end heights don't match"
ErrAccountRoot == "Account storage root doesn't match"
ErrParseAccount == "Failed to parse account"
ErrReadRecord == "Failed to read snapshot record"
ErrNilAccount == "panic: nil pointer dereference (account.Root)"
ErrTempDir == "panic: Failed to create temporary db for snapshot verification"
ErrOpen == "open: no such file or directory"
ErrMetadata == "Failed to load snapshot metadata"
ErrStateHash == "StateHash not matching"
ErrGenesisHeight == "Invalid genesis block: Invalid genesis block height"
ErrGenesisHash == "Invalid genesis block: Genesis block hash mismatch"
ErrParentLink == "block trio has invalid Parent link"
ErrHCCLink == "block trio has invalid HCC link"
ErrNoMajority == "block doesn't have majority votes"
ErrVoteInvalid == "vote is not valid"
ErrVoteBlock == "vote is not for corresponding block"
ErrVoteValidator == "can't find validator for vote"
ErrProof == "Failed to retrieve validator set from VCP proof"
ErrValSet == "The latest proven and retrieved validator set does not match"
ErrNoTrios == "panic: index out of range (metadata.BlockTrios)"
ErrNilView == "panic: nil pointer dereference (StoreView)"
ErrFormatBase == "panic: strconv: illegal AppendInt/FormatInt base"

\* the ends of a run that are a runtime panic, not a returned error
Panics == {ErrNilAccount, ErrNoTrios, ErrNilView, ErrFormatBase}

(***************************************************************************)
(* Bytes: keys and values of the trie records.                             *)
(***************************************************************************)
\* "ls/a/"
AccountKeyPrefix == <<108, 115, 47, 97, 47>>
\* "ls/a/" followed by one address byte
AccountKey(a) == AccountKeyPrefix \o <<a>>
\* state.ValidatorCandidatePoolKey(): "ls/vcp"
ValidatorCandidatePoolKey == <<108, 115, 47, 118, 99, 112>>
\* a key of an account's storage trie
StorageKey == <<120>>

AllKeys == <<StorageKey, ValidatorCandidatePoolKey, AccountKey(65), AccountKey(66)>>

\* strings.HasPrefix
HasPrefix(s, prefix) ==
    /\ Len(s) >= Len(prefix)
    /\ SubSeq(s, 1, Len(prefix)) = prefix

\* core.Itobytes / core.Bytestoi: a height as bytes, most significant first
Itobytes(n) == <<n \div 256, n % 256>>
RECURSIVE BytestoiFrom(_, _)
BytestoiFrom(b, acc) ==
    IF b = <<>> THEN acc ELSE BytestoiFrom(Tail(b), acc * 256 + Head(b))
Bytestoi(b) == BytestoiFrom(b, 0)

\* encodings of the values: <<tag, payload>>
AccountTag == 1
PoolTag == 2
AccountBytes(root) == <<AccountTag, root>>
PoolBytes(p) == <<PoolTag, p>>
RawBytes == <<3, 0>>

\* types.FromBytes(record.V, account): the decoded account, or no account
\* when the bytes are no account
AccountFromBytes(v) ==
    IF Len(v) = 2 /\ v[1] = AccountTag THEN <<[Root |-> v[2]]>> ELSE <<>>

(***************************************************************************)
(* StoreView: a height and the leaves set so far.                          *)
(***************************************************************************)
ZeroHash == 0

KeyCode(k) == CHOOSE i \in 1..Len(AllKeys) : AllKeys[i] = k
LeafIndex(l) == 2 * (KeyCode(l.K) - 1) + (l.V[2] % 2)

RECURSIVE SumBits(_)
SumBits(S) ==
    IF S = {} THEN 0
    ELSE LET i == CHOOSE j \in S : TRUE IN 2 ^ i + SumBits(S \ {i})

\* the root hash of a trie holding the leaves of content
RootOf(content) == 1 + SumBits({LeafIndex(l) : l \in content})

NewStoreView(height) == [height |-> height, content |-> {}]

\* sv.Set(k, v): the last value set under a key stays
SetLeaf(content, rec) == {l \in content : l.K # rec.K} \cup {rec}

(***************************************************************************)
(* Records of a snapshot file.                                             *)
(***************************************************************************)
ViewHeights == {0, 1}

StartRecord(h) == [K |-> <<SVStart>>, V |-> Itobytes(h)]
EndRecord(h) == [K |-> <<SVEnd>>, V |-> Itobytes(h)]
Leaf(k, v) == [K |-> k, V |-> v]

StorageLeaf == Leaf(StorageKey, RawBytes)
EmptyRoot == RootOf({})
StorageRoot == RootOf({StorageLeaf})
\* account A declares the storage root of {StorageLeaf}, account B the root
\* of an empty storage
AccountLeafA == Leaf(AccountKey(65), AccountBytes(StorageRoot))
AccountLeafB == Leaf(AccountKey(66), AccountBytes(EmptyRoot))
\* a leaf under an account key whose value is no account
BrokenAccountLeaf == Leaf(AccountKey(66), RawBytes)
PoolLeaf(p) == Leaf(ValidatorCandidatePoolKey, PoolBytes(p))

ControlRecords == {StartRecord(h) : h \in ViewHeights} \cup {EndRecord(h) : h \in ViewHeights}
\* the records of the state loader's specification
LoaderRecords == ControlRecords \cup {StorageLeaf, AccountLeafA, AccountLeafB, BrokenAccountLeaf}

\* the records of the pipeline's specification
PipelineRecords == {StartRecord(0), EndRecord(0), PoolLeaf(1), PoolLeaf(2)}

(***************************************************************************)
(* Validators, votes, headers, trios.                                      *)
(***************************************************************************)
\* the candidate pool a VCP value decodes to: candidates with their stake
PoolFromBytes(v) ==
    IF Len(v) = 2 /\ v[1] = PoolTag
    THEN IF v[2] = 1
         THEN <<{[ID |-> 1, Stake |-> 1], [ID |-> 2, Stake |-> 1], [ID |-> 3, Stake |-> 1]}>>
         ELSE <<{[ID |-> 1, Stake |-> 1], [ID |-> 2, Stake |-> 1], [ID |-> 4, Stake |-> 1]}>>
    ELSE <<>>

\* consensus.SelectTopStakeHoldersAsValidators: every candidate of these
\* small pools is selected
SelectTopStakeHoldersAsValidators(pool) == {c \in pool : c.Stake > 0}

RECURSIVE SumStake(_)
SumStake(S) ==
    IF S = {} THEN 0
    ELSE LET c == CHOOSE x \in S : TRUE IN c.Stake + SumStake(S \ {c})

\* ValidatorSet.GetValidator: the validators with that id
GetValidator(valSet, id) == {c \in valSet : c.ID = id}

\* ValidatorSet.HasMajority: the voters of the set hold two thirds of its stake
HasMajority(valSet, voteSet) ==
    LET voted == {c \in valSet : \E vote \in voteSet : vote.ID = c.ID}
    IN  3 * SumStake(voted) >= 2 * SumStake(valSet)

\* a vote: the voter, the block voted for, whether vote.Validate() is OK
Vote(id, block, ok) == [ID |-> id, Block |-> block, Valid |-> ok]
VotesOf(ids, block) == {Vote(id, block, TRUE) : id \in ids}

\* the first failure of one vote, in the order of validateVotes
VoteError(valSet, blockHash, vote) ==
    IF ~vote.Valid THEN ErrVoteInvalid
    ELSE IF vote.Block # blockHash THEN ErrVoteBlock
    ELSE IF GetValidator(valSet, vote.ID) = {} THEN ErrVoteValidator
    ELSE NoErr

\* the loop of validateVotes over voteSet.Votes(), which come sorted by voter
RECURSIVE VotesError(_, _, _)
VotesError(valSet, blockHash, votes) ==
    IF votes = {} THEN NoErr
    ELSE LET first == CHOOSE v \in votes : \A w \in votes : v.ID <= w.ID
             e == VoteError(valSet, blockHash, first)
         IN  IF e # NoErr THEN e ELSE VotesError(valSet, blockHash, votes \ {first})

ZeroBlockHash == <<>>

Header(height, parent, hccBlock, hccVotes, stateHash) ==
    [Height |-> height, Parent |-> parent,
     HCC |-> [BlockHash |-> hccBlock, Votes |-> hccVotes], StateHash |-> stateHash]

\* BlockHeader.Hash()
HeaderHash(h) == <<h.Height, h.Parent, h.HCC.BlockHash, h.HCC.Votes, h.StateHash>>

\* validateVotes
validateVotes(valSet, block, voteSet) ==
    IF ~HasMajority(valSet, voteSet) THEN ErrNoMajority
    ELSE VotesError(valSet, HeaderHash(block), voteSet)

\* a Merkle proof of one leaf: the root its nodes hash to, and the leaf
ProofOf(content, key) ==
    [Root |-> RootOf(content), Leaf |-> {l \in content : l.K = key}]

\* trie.VerifyProof: the value under key, <<>> when the proof does not
\* hash to root or holds no such key
VerifyProof(root, key, proof) ==
    IF proof.Root = root /\ \E l \in proof.Leaf : l.K = key
    THEN <<(CHOOSE l \in proof.Leaf : l.K = key).V>>
    ELSE <<>>

\* getValidatorSetFromVCPProof: <<the validator set>>, <<>> on an error
getValidatorSetFromVCPProof(stateHash, proof) ==
    LET serializedVCP == VerifyProof(stateHash, ValidatorCandidatePoolKey, proof)
        vcp == PoolFromBytes(serializedVCP[1])
    IN  IF serializedVCP = <<>> THEN <<>>
        ELSE IF vcp = <<>> THEN <<>>
        ELSE <<SelectTopStakeHoldersAsValidators(vcp[1])>>

\* StoreView.GetValidatorCandidatePool: the pool under the VCP key, empty
\* when there is none
GetValidatorCandidatePool(content) ==
    LET at == {l \in content : l.K = ValidatorCandidatePoolKey}
        vcp == PoolFromBytes((CHOOSE l \in at : TRUE).V)
    IN  IF at = {} \/ vcp = <<>> THEN {} ELSE vcp[1]

\* getValidatorSetFromSV
getValidatorSetFromSV(content) ==
    SelectTopStakeHoldersAsValidators(GetValidatorCandidatePool(content))

(***************************************************************************)
(* The snapshots the pipeline is run on: the reference chain below and     *)
(* the chains that differ from it in one place.                            *)
(***************************************************************************)
GenesisState == {PoolLeaf(1)}
TailState == {PoolLeaf(2)}
GenesisRoot == RootOf(GenesisState)
TailRoot == RootOf(TailState)

GenesisHeader == Header(genesisBlockHeight, ZeroBlockHash, ZeroBlockHash, {}, GenesisRoot)
mainnetGenesisBlockHash == HeaderHash(GenesisHeader)

First(header, proof) == [Header |-> header, Proof |-> proof]
Second(header) == [Header |-> header]
Third(header, voteSet) == [Header |-> header, VoteSet |-> voteSet]
BlockTrio(first, second, third) == [First |-> first, Second |-> second, Third |-> third]

\* trio 0: its First and Third are linked to nothing
GenesisFirst == First(Header(0, ZeroBlockHash, ZeroBlockHash, {}, ZeroHash), ProofOf({}, ValidatorCandidatePoolKey))
GenesisThirdHeader == Header(1, ZeroBlockHash, ZeroBlockHash, {}, ZeroHash)
GenesisSeconds ==
    {GenesisHeader,
     [GenesisHeader EXCEPT !.Height = 1],
     [GenesisHeader EXCEPT !.StateHash = TailRoot]}
GenesisTrios ==
    {BlockTrio(GenesisFirst, Second(s), Third(GenesisThirdHeader, votes)) :
        s \in GenesisSeconds,
        votes \in {VotesOf({1, 2}, HeaderHash(GenesisThirdHeader)), {}}}

\* trio 1 is built from the choices of a record c
TailFirstHeader(c) == Header(1, mainnetGenesisBlockHash, mainnetGenesisBlockHash, {}, c.firstState)
TailSecondHeader(c) ==
    Header(c.secondHeight,
           IF c.secondParent THEN HeaderHash(TailFirstHeader(c)) ELSE ZeroBlockHash,
           IF c.secondHCC THEN HeaderHash(TailFirstHeader(c)) ELSE ZeroBlockHash,
           {}, c.secondState)
HCCVotes(c) ==
    CASE c.votes = "old"      -> VotesOf({2, 3}, HeaderHash(TailSecondHeader(c)))
      [] c.votes = "both"     -> VotesOf({1, 2}, HeaderHash(TailSecondHeader(c)))
      [] c.votes = "new"      -> VotesOf({1, 4}, HeaderHash(TailSecondHeader(c)))
      [] c.votes = "few"      -> VotesOf({1}, HeaderHash(TailSecondHeader(c)))
      [] c.votes = "unsigned" -> {Vote(id, HeaderHash(TailSecondHeader(c)), id # 2) : id \in {1, 2}}
      [] c.votes = "other"    -> VotesOf({1, 2}, mainnetGenesisBlockHash)
TailThirdHeader(c) ==
    Header(3,
           IF c.thirdParent THEN HeaderHash(TailSecondHeader(c)) ELSE ZeroBlockHash,
           IF c.thirdHCC THEN HeaderHash(TailSecondHeader(c)) ELSE ZeroBlockHash,
           HCCVotes(c), ZeroHash)
TailTrio(c) ==
    BlockTrio(First(TailFirstHeader(c), ProofOf(c.proofState, ValidatorCandidatePoolKey)),
              Second(TailSecondHeader(c)),
              Third(TailThirdHeader(c),
                    IF c.tailVotes THEN VotesOf({1, 2}, HeaderHash(TailThirdHeader(c))) ELSE {}))

TailChoices ==
    [firstState : {TailRoot, GenesisRoot}, proofState : {TailState, GenesisState},
     secondHeight : {2, 0}, secondParent : BOOLEAN, secondHCC : BOOLEAN,
     secondState : {TailRoot, GenesisRoot},
     votes : {"old", "both", "new", "few", "unsigned", "other"},
     thirdParent : BOOLEAN, thirdHCC : BOOLEAN, tailVotes : BOOLEAN]

ReferenceChoice ==
    [firstState |-> TailRoot, proofState |-> TailState, secondHeight |-> 2,
     secondParent |-> TRUE, secondHCC |-> TRUE, secondState |-> TailRoot,
     votes |-> "old", thirdParent |-> TRUE, thirdHCC |-> TRUE, tailVotes |-> TRUE]

\* the fields in which a choice differs from the reference
Tampered(c) == {f \in DOMAIN c : c[f] # ReferenceChoice[f]}

\* a chain may keep the validator set: then the First state, its proof and
\* the state of the tail are those of the genesis
KeepsValidators(c) ==
    /\ Tampered(c) \subseteq {"firstState", "proofState", "secondState", "votes"}
    /\ c.firstState = GenesisRoot /\ c.proofState = GenesisState

TailTrios ==
    {TailTrio(c) : c \in {d \in TailChoices : Cardinality(Tampered(d)) <= MaxTampered \/ KeepsValidators(d)}}

ReferenceGenesisTrio ==
    BlockTrio(GenesisFirst, Second(GenesisHeader),
              Third(GenesisThirdHeader, VotesOf({1, 2}, HeaderHash(GenesisThirdHeader))))

\* the metadata records: no trio, the genesis trio alone, two trios
Metadatas ==
    {[BlockTrios |-> <<>>]}
    \cup {[BlockTrios |-> <<g>>] : g \in GenesisTrios}
    \cup {[BlockTrios |-> <<ReferenceGenesisTrio, t>>] : t \in TailTrios}
    \cup {[BlockTrios |-> <<g, TailTrio(ReferenceChoice)>>] : g \in GenesisTrios}

(***************************************************************************)
(* Keys and values of the block store.                                     *)
(***************************************************************************)
\* core.BlockTrioStoreKeyPrefix: "btrio/"
BlockTrioStoreKeyPrefix == <<98, 116, 114, 105, 111, 47>>

\* one digit of "0123456789abcdefghijklmnopqrstuvwxyz"
DigitByte(d) == IF d < 10 THEN 48 + d ELSE 87 + d

RECURSIVE FormatDigits(_, _)
FormatDigits(n, base) ==
    IF n < base THEN <<DigitByte(n)>>
    ELSE FormatDigits(n \div base, base) \o <<DigitByte(n % base)>>

\* strconv.FormatUint: the digits of n, <<>> when it panics on the base
FormatUint(n, base) ==
    IF base < 2 \/ base > 36 THEN <<>> ELSE FormatDigits(n, base)

\* the base loadSnapshot hands to strconv.FormatUint
BlockTrioKeyBase == 64

\* kvstore.Put: the value under a key is replaced
Put(store, key, value) == {e \in store : e.K # key} \cup {[K |-> key, V |-> value]}
Get(store, key) == {e.V : e \in {x \in store : x.K = key}}

BlockStatusDirectlyFinalized == "DirectlyFinalized"

ExtendedBlock(header, children, hasUpdate) ==
    [Block |-> header, Status |-> BlockStatusDirectlyFinalized,
     Children |-> children, HasValidatorUpdate |-> hasUpdate]

\* "ls/shl"
StakeTransactionHeightListKey == <<108, 115, 47, 115, 104, 108>>
\* StoreView.GetStakeTransactionHeightList: the heights under that key
GetStakeTransactionHeightList(content) ==
    {l.V[2] : l \in {x \in content : x.K = StakeTransactionHeightListKey}}

WritesTailFirst_Always(secondHeight) == TRUE

\* saveTailBlocks writes the First of the tail trio
WritesTailFirst(secondHeight) == secondHeight # genesisBlockHeight

\* saveTailBlocks: the block store after its Puts
saveTailBlocks(blocks, tailTrio, content) ==
    LET hl == GetStakeTransactionHeightList(content)
        first == tailTrio.First.Header
        second == tailTrio.Second.Header
        withFirst ==
            IF WritesTailFirst(second.Height)
            THEN Put(blocks, HeaderHash(first),
                     ExtendedBlock(first, <<HeaderHash(second)>>, first.Height \in hl))
            ELSE blocks
    IN  Put(withFirst, HeaderHash(second),
            ExtendedBlock(second, <<>>, second.Height \in hl))

VARIABLES
    pc,           \* where loadSnapshot stands
    metadata,     \* the metadata record read from the file
    file,         \* the trie records read from the file so far
    eof,          \* ReadRecord returned io.EOF
    svStack,      \* loadState: the stack of open views
    sv,           \* loadState: the view popped last (<<>> is nil)
    hash,         \* loadState: the root the last Save returned
    account,      \* loadState: the pending account (<<>> is nil)
    idx,          \* the trio the loop of checkSnapshot or loadSnapshot is at
    provenValSet, \* checkSnapshot: the proven validator set (<<>> is nil)
    trieNodes,    \* db: the tries Save wrote
    kvTrios,      \* db: the block trios put under their btrio/ key
    kvBlocks,     \* db: the extended blocks put under their block hash
    ret,          \* the header returned (<<>> is nil)
    err,          \* the error returned, NoErr while there is none
    fileOpen,     \* the handle of the snapshot file is held
    tmpDirs,      \* ValidateSnapshot: the directories under the temporary root
    firstRun,     \* two runs: what the first run read and how it ended (<<>> in the first)
    chainStore,   \* Chain: the blocks added, under their hash
    txIndex,      \* Chain: the transaction index, under the hash of the transaction
    chainOps,     \* Chain: the calls made so far
    viewCalls     \* loadState: the calls of Set and Save on the views, in order

loaderVars == <<file, eof, svStack, sv, hash, account, viewCalls>>
checkVars == <<idx, provenValSet>>
storeVars == <<kvTrios, kvBlocks, ret>>
fsVars == <<fileOpen, tmpDirs, firstRun>>
chainVars == <<chainStore, txIndex, chainOps>>
vars == <<pc, metadata, file, eof, svStack, sv, hash, account, idx, provenValSet,
          trieNodes, kvTrios, kvBlocks, ret, err, fileOpen, tmpDirs, firstRun,
          chainStore, txIndex, chainOps, viewCalls>>

\* SVStack.peek: the top view, <<>> when the stack is empty
peek(s) == IF Len(s) = 0 THEN <<>> ELSE <<s[Len(s)]>>
popRest_Keeps(s) == s

\* SVStack.pop: the rest of the stack
popRest(s) == IF Len(s) = 0 THEN s ELSE SubSeq(s, 1, Len(s) - 1)
\* SVStack.push
push(s, v) == Append(s, v)

\* an error is returned (or the program panics): nothing runs after it
Fail(msg) ==
    /\ pc' = "done"
    /\ err' = msg

InitVars ==
    /\ metadata = [BlockTrios |-> <<>>]
    /\ file = <<>>
    /\ eof = FALSE
    /\ svStack = <<>>
    /\ sv = <<>>
    /\ hash = ZeroHash
    /\ account = <<>>
    /\ idx = 0
    /\ provenValSet = <<>>
    /\ trieNodes = {}
    /\ kvTrios = {}
    /\ kvBlocks = {}
    /\ ret = <<>>
    /\ err = NoErr
    /\ tmpDirs = {}
    /\ firstRun = <<>>
    /\ chainStore = {}
    /\ txIndex = {}
    /\ chainOps = <<>>
    /\ viewCalls = <<>>

\* LoadSnapshot is called
Init ==
    /\ pc = "open"
    /\ fileOpen = FALSE
    /\ InitVars

\* loadState is called, on an open file
InitLoadState ==
    /\ pc = "loadState"
    /\ fileOpen = TRUE
    /\ InitVars

\* CreateTestChain: a chain without blocks
InitChain ==
    /\ pc = "chain"
    /\ fileOpen = FALSE
    /\ InitVars

\* ValidateSnapshot is called
InitValidate ==
    /\ pc = "tempDir"
    /\ fileOpen = FALSE
    /\ InitVars

\* os.Open
OpenFile ==
    /\ pc = "open"
    /\ fileOpen' = TRUE
    /\ pc' = "readMetadata"
    /\ UNCHANGED <<tmpDirs, firstRun, chainVars, metadata, loaderVars, checkVars, storeVars,
                   trieNodes, err>>

\* os.Open fails: loadSnapshot returns before file.Close is deferred
OpenFileFails ==
    /\ pc = "open"
    /\ pc' = "returned"
    /\ err' = ErrOpen
    /\ UNCHANGED <<fsVars, chainVars, metadata, loaderVars, checkVars, storeVars, trieNodes>>

\* loadSnapshot returns or panics: the deferred file.Close runs
DeferredClose ==
    /\ pc = "done"
    /\ fileOpen' = FALSE
    /\ pc' = "returned"
    /\ UNCHANGED <<tmpDirs, firstRun, chainVars, metadata, loaderVars, checkVars, storeVars,
                   trieNodes, err>>

(***************************************************************************)
(* loadSnapshot: the metadata record.                                      *)
(***************************************************************************)
ReadMetadata ==
    /\ pc = "readMetadata"
    /\ \E md \in Metadatas : metadata' = md
    /\ pc' = "loadState"
    /\ UNCHANGED <<fsVars, chainVars, loaderVars, checkVars, storeVars, trieNodes, err>>

ReadMetadataFails ==
    /\ pc = "readMetadata"
    /\ Fail(ErrMetadata)
    /\ UNCHANGED <<fsVars, chainVars, metadata, loaderVars, checkVars, storeVars, trieNodes>>

(***************************************************************************)
(* loadState: one record of the file.                                      *)
(***************************************************************************)
\* the view a pointer points at: the views are told apart by the record
\* that made them
ViewOf(id, view) == [id |-> id, height |-> view.height, content |-> view.content]

\* a call of a method of a view, while record number at is handled
ViewCall(op, view, at) == [op |-> op, view |-> view.id, at |-> at]

\* record.K = SVStart
SVStartRecord(rec) ==
    /\ pc = "loadState"
    /\ Len(file) < MaxRecords
    /\ rec.K = <<SVStart>>
    /\ Len(svStack) < MaxDepth
    /\ file' = Append(file, rec)
    /\ svStack' = push(svStack, ViewOf(Len(file) + 1, NewStoreView(Bytestoi(rec.V))))
    /\ UNCHANGED <<fsVars, chainVars, pc, metadata, eof, sv, hash, account, viewCalls,
                   checkVars, storeVars, trieNodes, err>>

\* the account check of a closed view: the error, NoErr when it passes
AccountRootError(pending, root) ==
    IF pending = <<>> THEN ErrNilAccount
    ELSE IF pending[1].Root # root THEN ErrAccountRoot
    ELSE NoErr

\* the closed view is taken for the storage of an account
IsAccountStorage(rest, height) ==
    /\ peek(rest) # <<>>
    /\ height = peek(rest)[1].height

HeightsMatch_Unchecked(height, view) == TRUE

\* the height of an SVEnd record against the height of the popped view
HeightsMatch(height, view) == height = view.height

\* record.K = SVEnd
SVEndRecord(rec) ==
    /\ pc = "loadState"
    /\ Len(file) < MaxRecords
    /\ rec.K = <<SVEnd>>
    /\ file' = Append(file, rec)
    /\ svStack' = popRest(svStack)
    /\ sv' = peek(svStack)
    /\ LET height == Bytestoi(rec.V)
           top == peek(svStack)
           root == RootOf(top[1].content)
           e == AccountRootError(account, root)
       IN  IF top = <<>>
           THEN Fail(ErrMissingAtEnd) /\ UNCHANGED <<hash, account, trieNodes, viewCalls>>
           ELSE IF ~HeightsMatch(height, top[1])
           THEN Fail(ErrHeights) /\ UNCHANGED <<hash, account, trieNodes, viewCalls>>
           ELSE /\ hash' = root
                /\ trieNodes' = trieNodes \cup {top[1].content}
                /\ viewCalls' = Append(viewCalls, ViewCall("Save", top[1], Len(file) + 1))
                /\ IF IsAccountStorage(popRest(svStack), height) /\ e # NoErr
                   THEN Fail(e) /\ UNCHANGED account
                   ELSE account' = <<>> /\ UNCHANGED <<pc, err>>
    /\ UNCHANGED <<fsVars, chainVars, metadata, eof, checkVars, storeVars>>

\* the pending account after a leaf: <<>> stands for a failed decoding
PendingAccount(pending, rec) ==
    IF pending = <<>> /\ HasPrefix(rec.K, AccountKeyPrefix)
    THEN AccountFromBytes(rec.V)
    ELSE pending

\* any other record: a leaf
LeafRecord(rec) ==
    /\ pc = "loadState"
    /\ Len(file) < MaxRecords
    /\ rec.K # <<SVStart>>
    /\ rec.K # <<SVEnd>>
    /\ file' = Append(file, rec)
    /\ LET top == peek(svStack)
       IN  IF top = <<>>
           THEN Fail(ErrMissingAtLeaf) /\ UNCHANGED <<svStack, account, viewCalls>>
           ELSE /\ svStack' = [svStack EXCEPT ![Len(svStack)].content = SetLeaf(@, rec)]
                /\ viewCalls' = Append(viewCalls, ViewCall("Set", top[1], Len(file) + 1))
                /\ account' = PendingAccount(account, rec)
                /\ IF account = <<>> /\ HasPrefix(rec.K, AccountKeyPrefix)
                      /\ AccountFromBytes(rec.V) = <<>>
                   THEN Fail(ErrParseAccount)
                   ELSE UNCHANGED <<pc, err>>
    /\ UNCHANGED <<fsVars, chainVars, metadata, eof, sv, hash, checkVars, storeVars, trieNodes>>

\* at io.EOF: some view is not closed
StillOpen(stack) == peek(stack) # <<>>

\* ReadRecord returns io.EOF
EndOfFile ==
    /\ pc = "loadState"
    /\ eof' = TRUE
    /\ IF StillOpen(svStack)
       THEN Fail(ErrUnhandled)
       ELSE pc' = "checkSnapshot" /\ UNCHANGED err
    /\ UNCHANGED <<fsVars, chainVars, metadata, file, svStack, sv, hash, account, viewCalls,
                   checkVars, storeVars, trieNodes>>

\* ReadRecord returns another error than io.EOF
ReadRecordFails ==
    /\ pc = "loadState"
    /\ Fail(ErrReadRecord)
    /\ UNCHANGED <<fsVars, chainVars, metadata, loaderVars, checkVars, storeVars, trieNodes>>

ReadRecord(rec) ==
    \/ SVStartRecord(rec)
    \/ SVEndRecord(rec)
    \/ LeafRecord(rec)

(***************************************************************************)
(* checkSnapshot.                                                          *)
(***************************************************************************)
NumTrios == Len(metadata.BlockTrios)
TailBlockTrio == metadata.BlockTrios[NumTrios]

StateHashError_Unchecked(stateHash, root) == NoErr

\* the state hash of the tail against the root loadState returned
StateHashError(stateHash, root) ==
    IF stateHash # root THEN ErrStateHash ELSE NoErr

CheckStateHash ==
    /\ pc = "checkSnapshot"
    /\ IF NumTrios = 0
       THEN Fail(ErrNoTrios) /\ UNCHANGED idx
       ELSE LET e == StateHashError(TailBlockTrio.Second.Header.StateHash, hash)
            IN  IF e # NoErr
                THEN Fail(e) /\ UNCHANGED idx
                ELSE pc' = "checkTrios" /\ idx' = 1 /\ UNCHANGED err
    /\ UNCHANGED <<fsVars, chainVars, metadata, loaderVars, provenValSet, storeVars, trieNodes>>

\* state.NewStoreView(height, root, db): the trie of that root in db
StoredTrie(nodes, root) == {c \in nodes : RootOf(c) = root}

GenesisError_HeightOnly(block, nodes) ==
    IF block.Height # genesisBlockHeight THEN ErrGenesisHeight
    ELSE IF StoredTrie(nodes, block.StateHash) = {} THEN ErrNilView
    ELSE NoErr

\* validateGenesisBlock: the error, NoErr when the block is the genesis
GenesisError(block, nodes) ==
    IF block.Height # genesisBlockHeight THEN ErrGenesisHeight
    ELSE IF HeaderHash(block) # mainnetGenesisBlockHash THEN ErrGenesisHash
    ELSE IF StoredTrie(nodes, block.StateHash) = {} THEN ErrNilView
    ELSE NoErr

\* validateGenesisBlock: the genesis validator set
GenesisValidatorSet(block, nodes) ==
    getValidatorSetFromSV(CHOOSE c \in StoredTrie(nodes, block.StateHash) : TRUE)

\* the links of a trio after the first
LinkError(trio) ==
    LET first == trio.First.Header
        second == trio.Second.Header
        third == trio.Third.Header
    IN  IF second.Parent # HeaderHash(first) \/ third.Parent # HeaderHash(second)
        THEN ErrParentLink
        ELSE IF second.HCC.BlockHash # HeaderHash(first)
                \/ third.HCC.BlockHash # HeaderHash(second)
        THEN ErrHCCLink
        ELSE NoErr

VotingSet_Rotated(proven, trio) ==
    LET proved == getValidatorSetFromVCPProof(trio.First.Header.StateHash, trio.First.Proof)
    IN  IF proved = <<>> THEN proven ELSE proved

\* the validator set the votes of trio i's Third.HCC are validated against
VotingSet(proven, trio) == proven

\* the checks of a trio after the first, before its proof is read
TrioError(proven, trio) ==
    IF LinkError(trio) # NoErr THEN LinkError(trio)
    ELSE validateVotes(VotingSet(proven, trio)[1], trio.Second.Header, trio.Third.Header.HCC.Votes)

\* one pass of the loop over metadata.BlockTrios
CheckTrio ==
    /\ pc = "checkTrios"
    /\ idx <= NumTrios
    /\ LET trio == metadata.BlockTrios[idx]
           proved == getValidatorSetFromVCPProof(trio.First.Header.StateHash, trio.First.Proof)
       IN  IF idx = 1
           THEN LET e == GenesisError(trio.Second.Header, trieNodes)
                IN  IF e # NoErr
                    THEN Fail(e) /\ UNCHANGED <<idx, provenValSet>>
                    ELSE /\ provenValSet' = <<GenesisValidatorSet(trio.Second.Header, trieNodes)>>
                         /\ idx' = idx + 1
                         /\ UNCHANGED <<pc, err>>
           ELSE LET e == TrioError(provenValSet, trio)
                IN  IF e # NoErr
                    THEN Fail(e) /\ UNCHANGED <<idx, provenValSet>>
                    ELSE IF proved = <<>>
                    THEN Fail(ErrProof) /\ UNCHANGED <<idx, provenValSet>>
                    ELSE /\ provenValSet' = proved
                         /\ idx' = idx + 1
                         /\ UNCHANGED <<pc, err>>
    /\ UNCHANGED <<fsVars, chainVars, metadata, loaderVars, storeVars, trieNodes>>

\* what checkSnapshot makes of the votes of the tail trio's Third: the
\* result of validateVotes is dropped
TailVotesError(proven, third) == NoErr

ValSetError_Unchecked(proven, view) ==
    IF view = <<>> THEN ErrNilView ELSE NoErr

\* the proven validator set against the one of the loaded view
ValSetError(proven, view) ==
    IF view = <<>> THEN ErrNilView
    ELSE IF proven[1] # getValidatorSetFromSV(view[1].content) THEN ErrValSet
    ELSE NoErr

\* after the loop: the votes of the tail, the final validator set
CheckFinal ==
    /\ pc = "checkTrios"
    /\ idx > NumTrios
    /\ LET ev == TailVotesError(provenValSet, TailBlockTrio.Third)
           es == ValSetError(provenValSet, sv)
       IN  IF ev # NoErr THEN Fail(ev) /\ UNCHANGED idx
           ELSE IF es # NoErr THEN Fail(es) /\ UNCHANGED idx
           ELSE pc' = "saveTrios" /\ idx' = 1 /\ UNCHANGED err
    /\ UNCHANGED <<fsVars, chainVars, metadata, loaderVars, provenValSet, storeVars, trieNodes>>

(***************************************************************************)
(* loadSnapshot: the proofs and the tail blocks.                           *)
(***************************************************************************)
\* the trios loadSnapshot puts into the store: all but the last
IsStoredTrio(i, n) == i < n

\* one pass of the loop that stores the block trios
SaveBlockTrio ==
    /\ pc = "saveTrios"
    /\ idx <= NumTrios
    /\ LET trio == metadata.BlockTrios[idx]
           digits == FormatUint(trio.First.Header.Height, BlockTrioKeyBase)
       IN  IF IsStoredTrio(idx, NumTrios)
           THEN IF digits = <<>>
                THEN Fail(ErrFormatBase) /\ UNCHANGED <<idx, kvTrios>>
                ELSE /\ kvTrios' = Put(kvTrios, BlockTrioStoreKeyPrefix \o digits, trio)
                     /\ idx' = idx + 1
                     /\ UNCHANGED <<pc, err>>
           ELSE idx' = idx + 1 /\ UNCHANGED <<pc, err, kvTrios>>
    /\ UNCHANGED <<fsVars, chainVars, metadata, loaderVars, provenValSet, kvBlocks, ret,
                   trieNodes>>

SaveTailBlocks_PutMayFail ==
    /\ pc = "saveTrios"
    /\ idx > NumTrios
    /\ \/ /\ kvBlocks' = saveTailBlocks(kvBlocks, TailBlockTrio, sv[1].content)
          /\ ret' = <<TailBlockTrio.Second.Header>>
          /\ pc' = "done"
          /\ UNCHANGED err
       \/ Fail("put failed") /\ UNCHANGED <<kvBlocks, ret>>
    /\ UNCHANGED <<fsVars, chainVars, metadata, loaderVars, checkVars, kvTrios, trieNodes>>

\* saveTailBlocks, and the return of loadSnapshot
SaveTailBlocks ==
    /\ pc = "saveTrios"
    /\ idx > NumTrios
    /\ kvBlocks' = saveTailBlocks(kvBlocks, TailBlockTrio, sv[1].content)
    /\ ret' = <<TailBlockTrio.Second.Header>>
    /\ pc' = "done"
    /\ UNCHANGED <<fsVars, chainVars, metadata, loaderVars, checkVars, kvTrios, trieNodes, err>>

Next ==
    \/ OpenFile
    \/ OpenFileFails
    \/ ReadMetadata
    \/ ReadMetadataFails
    \/ \E rec \in PipelineRecords : ReadRecord(rec)
    \/ ReadRecordFails
    \/ EndOfFile
    \/ CheckStateHash
    \/ CheckTrio
    \/ CheckFinal
    \/ SaveBlockTrio
    \/ SaveTailBlocks
    \/ DeferredClose

Spec == Init /\ [][Next]_vars

(***************************************************************************)
(* ValidateSnapshot: loadSnapshot on a database in a temporary directory.  *)
(***************************************************************************)
\* the directory ioutil.TempDir makes, and the two of the database
tmpdbRoot == <<"tmpdb">>
mainTmpDBPath == tmpdbRoot \o <<"main">>
refTmpDBPath == tmpdbRoot \o <<"ref">>

\* os.RemoveAll: path and all that is under it are gone
RemoveAll(dirs, path) ==
    {d \in dirs : ~(Len(d) >= Len(path) /\ SubSeq(d, 1, Len(path)) = path)}

\* the deferred function of ValidateSnapshot
RemovedOnReturn(dirs) == RemoveAll(RemoveAll(dirs, mainTmpDBPath), refTmpDBPath)

\* ioutil.TempDir
TempDir ==
    /\ pc = "tempDir"
    /\ tmpDirs' = tmpDirs \cup {tmpdbRoot}
    /\ pc' = "newDatabase"
    /\ UNCHANGED <<fileOpen, firstRun, chainVars, metadata, loaderVars, checkVars, storeVars,
                   trieNodes, err>>

\* ioutil.TempDir fails: ValidateSnapshot panics, nothing is deferred yet
TempDirFails ==
    /\ pc = "tempDir"
    /\ pc' = "validated"
    /\ err' = ErrTempDir
    /\ UNCHANGED <<fsVars, chainVars, metadata, loaderVars, checkVars, storeVars, trieNodes>>

\* backend.NewLDBDatabase: the main and the ref database are opened
NewLDBDatabase ==
    /\ pc = "newDatabase"
    /\ tmpDirs' = tmpDirs \cup {mainTmpDBPath, refTmpDBPath}
    /\ pc' = "open"
    /\ UNCHANGED <<fileOpen, firstRun, chainVars, metadata, loaderVars, checkVars, storeVars,
                   trieNodes, err>>

\* loadSnapshot has returned or panicked: the deferred function runs and
\* ValidateSnapshot returns
ValidateSnapshotReturns ==
    /\ pc = "returned"
    /\ tmpDirs' = RemovedOnReturn(tmpDirs)
    /\ pc' = "validated"
    /\ UNCHANGED <<fileOpen, firstRun, chainVars, metadata, loaderVars, checkVars, storeVars,
                   trieNodes, err>>

NextValidate ==
    \/ TempDir
    \/ TempDirFails
    \/ NewLDBDatabase
    \/ Next
    \/ ValidateSnapshotReturns

SpecValidate == InitValidate /\ [][NextValidate]_vars

(***************************************************************************)
(* LoadSnapshot twice on the same snapshot, each time into an empty        *)
(* database.                                                               *)
(***************************************************************************)
\* the errors of reading the file: they are part of what the file is
ReadErrors == {ErrOpen, ErrMetadata, ErrReadRecord}

\* what LoadSnapshot returns and what it leaves in the database
Outcome ==
    [err |-> err, ret |-> ret, trieNodes |-> trieNodes,
     kvTrios |-> kvTrios, kvBlocks |-> kvBlocks]

\* the first run is over: the second starts on an empty database
RunAgain ==
    /\ pc = "returned"
    /\ firstRun = <<>>
    /\ firstRun' = <<[metadata |-> metadata, file |-> file, eof |-> eof, outcome |-> Outcome]>>
    /\ pc' = "open"
    /\ fileOpen' = FALSE
    /\ metadata' = [BlockTrios |-> <<>>]
    /\ file' = <<>>
    /\ eof' = FALSE
    /\ svStack' = <<>>
    /\ sv' = <<>>
    /\ hash' = ZeroHash
    /\ account' = <<>>
    /\ viewCalls' = <<>>
    /\ idx' = 0
    /\ provenValSet' = <<>>
    /\ trieNodes' = {}
    /\ kvTrios' = {}
    /\ kvBlocks' = {}
    /\ ret' = <<>>
    /\ err' = NoErr
    /\ UNCHANGED <<tmpDirs, chainVars>>

\* the second run reads what the first run read
SameSnapshot ==
    firstRun # <<>> =>
        LET first == firstRun[1]
            failed == first.outcome.err
        IN  /\ pc # "open" => (err = ErrOpen <=> failed = ErrOpen)
            /\ (pc \notin {"open", "readMetadata"} /\ err # ErrOpen) =>
                /\ err = ErrMetadata <=> failed = ErrMetadata
                /\ err # ErrMetadata => metadata = first.metadata
            /\ Len(file) <= Len(first.file)
            /\ SubSeq(first.file, 1, Len(file)) = file
            /\ eof => first.eof /\ file = first.file
            /\ err = ErrReadRecord => failed = ErrReadRecord /\ file = first.file

NextTwice ==
    \/ Next /\ SameSnapshot'
    \/ RunAgain

SpecTwice == Init /\ [][NextTwice]_vars

(***************************************************************************)
(* Chain: the transaction index (blockchain.Chain, as tx_test.go uses it). *)
(***************************************************************************)
\* crypto.Keccak256Hash of a transaction
Keccak256Hash(tx) == <<"keccak256", tx>>

TestBlock(blockHash, height, txs) == [Hash |-> blockHash, Height |-> height, Txs |-> txs]
\* the blocks of the tests, and one more that shares a transaction with each
TestBlocks ==
    {TestBlock("block1", 10, <<"tx1", "tx2">>),
     TestBlock("block2", 20, <<"tx2", "tx3">>),
     TestBlock("block3", 30, <<"tx3", "tx1">>)}
\* the transactions of the tests; tx4 is in no block
TestTxs == {"tx1", "tx2", "tx3", "tx4"}

TxIndexEntry(block, i) == [BlockHash |-> block.Hash, Index |-> i]

WritesIndexEntry_Always(force, indexed) == TRUE

\* AddTxsToIndex: an entry is written when forced or when there is none
WritesIndexEntry(force, indexed) == force \/ ~indexed

\* AddTxsToIndex: the index after the transactions i.. of the block
RECURSIVE IndexTxsFrom(_, _, _, _)
IndexTxsFrom(index, block, i, force) ==
    IF i > Len(block.Txs) THEN index
    ELSE LET key == Keccak256Hash(block.Txs[i])
         IN  IndexTxsFrom(IF WritesIndexEntry(force, Get(index, key) # {})
                          THEN Put(index, key, TxIndexEntry(block, i))
                          ELSE index,
                          block, i + 1, force)

\* Chain.FindTxByHash: the transaction, the block and whether it was found
FindTxByHash(index, blocks, txHash) ==
    LET entries == Get(index, txHash)
        entry == CHOOSE e \in entries : TRUE
        found == IF entries = {} THEN {} ELSE Get(blocks, entry.BlockHash)
        block == CHOOSE b \in found : TRUE
    IN  IF found = {}
        THEN [tx |-> <<>>, block |-> <<>>, found |-> FALSE]
        ELSE [tx |-> <<block.Txs[entry.Index]>>, block |-> <<block>>, found |-> TRUE]

\* Chain.AddBlock: a block that is already there is refused
AddBlock(block) ==
    /\ Len(chainOps) < MaxOps
    /\ IF Get(chainStore, block.Hash) # {}
       THEN /\ chainOps' = Append(chainOps, [op |-> "AddBlock", block |-> block, ok |-> FALSE])
            /\ UNCHANGED <<chainStore, txIndex>>
       ELSE /\ chainStore' = Put(chainStore, block.Hash, block)
            /\ txIndex' = IndexTxsFrom(txIndex, block, 1, FALSE)
            /\ chainOps' = Append(chainOps, [op |-> "AddBlock", block |-> block, ok |-> TRUE])
    /\ UNCHANGED <<pc, metadata, loaderVars, checkVars, storeVars, trieNodes, err, fsVars>>

\* Chain.AddTxsToIndex, on a block of the chain
AddTxsToIndex(block, force) ==
    /\ Len(chainOps) < MaxOps
    /\ Get(chainStore, block.Hash) # {}
    /\ txIndex' = IndexTxsFrom(txIndex, block, 1, force)
    /\ chainOps' = Append(chainOps, [op |-> IF force THEN "ForceIndex" ELSE "Index",
                                     block |-> block, ok |-> TRUE])
    /\ UNCHANGED <<pc, metadata, loaderVars, checkVars, storeVars, trieNodes, err, fsVars,
                   chainStore>>

NextChain ==
    \/ \E block \in TestBlocks : AddBlock(block)
    \/ \E block \in TestBlocks, force \in BOOLEAN : AddTxsToIndex(block, force)

\* CreateTestChain, then calls of AddBlock and AddTxsToIndex
SpecChain == InitChain /\ [][NextChain]_vars

\* loadState alone, on the records of LoaderRecords
NextLoadState ==
    \/ \E rec \in LoaderRecords : ReadRecord(rec)
    \/ ReadRecordFails
    \/ EndOfFile

SpecLoadState == InitLoadState /\ [][NextLoadState]_vars

(***************************************************************************)
(* What a file and a metadata record say, read off the records themselves. *)
(***************************************************************************)
IsStart(rec) == rec.K = <<SVStart>>
IsEnd(rec) == rec.K = <<SVEnd>>
IsLeaf(rec) == ~IsStart(rec) /\ ~IsEnd(rec)
HeightOf(rec) == Bytestoi(rec.V)

\* the nesting of the records f[i..]: the heights still open at the end, or
\* the first record that breaks the nesting and how
RECURSIVE NestFrom(_, _, _)
NestFrom(f, i, open) ==
    IF i > Len(f) THEN [kind |-> "none", at |-> 0, open |-> open]
    ELSE IF IsStart(f[i]) THEN NestFrom(f, i + 1, Append(open, HeightOf(f[i])))
    ELSE IF open = <<>>
    THEN [kind |-> IF IsEnd(f[i]) THEN "UnmatchedEnd" ELSE "LeafOutsideView", at |-> i, open |-> open]
    ELSE IF IsLeaf(f[i]) THEN NestFrom(f, i + 1, open)
    ELSE IF open[Len(open)] # HeightOf(f[i])
    THEN [kind |-> "HeightMismatch", at |-> i, open |-> open]
    ELSE NestFrom(f, i + 1, SubSeq(open, 1, Len(open) - 1))
Nesting(f) == NestFrom(f, 1, <<>>)
WellNested(f) == Nesting(f).kind = "none" /\ Nesting(f).open = <<>>

\* the record that closes the scope opened by record i of a well nested f
RECURSIVE ScopeEndFrom(_, _, _)
ScopeEndFrom(f, j, depth) ==
    IF j > Len(f) THEN 0
    ELSE IF IsStart(f[j]) THEN ScopeEndFrom(f, j + 1, depth + 1)
    ELSE IF IsEnd(f[j]) THEN IF depth = 1 THEN j ELSE ScopeEndFrom(f, j + 1, depth - 1)
    ELSE ScopeEndFrom(f, j + 1, depth)
ScopeEnd(f, i) == ScopeEndFrom(f, i + 1, 1)

\* the leaves set in the scope f[i..m] itself, not in the scopes inside it
RECURSIVE ScopeLeavesFrom(_, _, _, _, _)
ScopeLeavesFrom(f, j, m, depth, content) ==
    IF j >= m THEN content
    ELSE IF IsStart(f[j]) THEN ScopeLeavesFrom(f, j + 1, m, depth + 1, content)
    ELSE IF IsEnd(f[j]) THEN ScopeLeavesFrom(f, j + 1, m, depth - 1, content)
    ELSE ScopeLeavesFrom(f, j + 1, m, depth,
                         IF depth = 1 THEN SetLeaf(content, f[j]) ELSE content)
ScopeLeaves(f, i) == ScopeLeavesFrom(f, i + 1, ScopeEnd(f, i), 1, {})

\* the number of scopes open before record i
DepthBefore(f, i) == Len(Nesting(SubSeq(f, 1, i - 1)).open)

\* the outermost scopes of f, and the last of them
TopScopes(f) == {i \in 1..Len(f) : IsStart(f[i]) /\ DepthBefore(f, i) = 0}
LastTopScope(f) == CHOOSE i \in TopScopes(f) : \A j \in TopScopes(f) : j <= i

LoaderErrors ==
    {ErrUnhandled, ErrMissing, ErrHeights, ErrAccountRoot, ErrParseAccount, ErrNilAccount,
     ErrReadRecord}

\* loadState has returned a view and a root to loadSnapshot
LoadStateReturned ==
    /\ eof
    /\ pc # "loadState"
    /\ err \notin LoaderErrors

\* loadSnapshot has returned a header
Loaded == pc = "done" /\ err = NoErr

\* checkSnapshot has run to its end, with an error or without
CheckSnapshotOver ==
    /\ LoadStateReturned
    /\ pc \in {"saveTrios", "done"}

(***************************************************************************)
(* C1: a load succeeds only if the root of the last closed outermost view  *)
(* is the StateHash of the tail trio's Second; when the two differ the     *)
(* load fails with the state hash error, whatever else is wrong with the   *)
(* trios, and no trio has been looked at.                                  *)
(***************************************************************************)
C1_StateHashFirst ==
    /\ Loaded =>
        /\ hash = TailBlockTrio.Second.Header.StateHash
        /\ hash = RootOf(ScopeLeaves(file, LastTopScope(file)))
    /\ (CheckSnapshotOver /\ NumTrios > 0 /\ hash # TailBlockTrio.Second.Header.StateHash) =>
        /\ pc = "done"
        /\ err = ErrStateHash
        /\ provenValSet = <<>>
        /\ idx = 0

\* the state hash of the tail is wrong and so is the genesis block
C1_Witness ==
    /\ pc = "done"
    /\ err = ErrStateHash
    /\ file # <<>>
    /\ GenesisError(metadata.BlockTrios[1].Second.Header, trieNodes) # NoErr

(***************************************************************************)
(* C2: after a successful loadState, a scope that follows an account leaf  *)
(* in the enclosing view (opened at the height of that view, holding some  *)
(* leaf) has the root that this very account leaf declares.                *)
(***************************************************************************)
IsAccountLeaf(rec) ==
    /\ IsLeaf(rec)
    /\ HasPrefix(rec.K, AccountKeyPrefix)
    /\ AccountFromBytes(rec.V) # <<>>

\* record i opens the storage scope of the account leaf right before it
IntroducedByAccount(f, i) ==
    /\ i > 1
    /\ IsStart(f[i])
    /\ IsAccountLeaf(f[i - 1])
    /\ DepthBefore(f, i) >= 1
    /\ HeightOf(f[i]) = Nesting(SubSeq(f, 1, i - 1)).open[DepthBefore(f, i)]
    /\ ScopeLeaves(f, i) # {}

C2_StorageRootOfItsAccount ==
    (pc = "checkSnapshot" /\ err = NoErr) =>
        \A i \in 1..Len(file) :
            IntroducedByAccount(file, i) =>
                RootOf(ScopeLeaves(file, i)) = AccountFromBytes(file[i - 1].V)[1].Root

(***************************************************************************)
(* The validator set the trios 1..i of the metadata establish: the set of  *)
(* the genesis state for the first trio, the set its First proves for a    *)
(* later one.                                                              *)
(***************************************************************************)
EstablishedSet(i) ==
    IF i = 1
    THEN SelectTopStakeHoldersAsValidators(GetValidatorCandidatePool(GenesisState))
    ELSE LET first == metadata.BlockTrios[i].First
         IN  getValidatorSetFromVCPProof(first.Header.StateHash, first.Proof)[1]

\* the votes are votes of valSet that finalize block
VotesFinalize(valSet, block, voteSet) ==
    /\ 3 * SumStake({c \in valSet : \E v \in voteSet : v.ID = c.ID}) >= 2 * SumStake(valSet)
    /\ \A v \in voteSet :
        /\ v.Valid
        /\ v.Block = HeaderHash(block)
        /\ \E c \in valSet : c.ID = v.ID

\* the loop of checkSnapshot has passed trio i
TrioPassed(i) ==
    /\ i <= NumTrios
    /\ \/ pc = "checkTrios" /\ idx > i
       \/ pc = "saveTrios"
       \/ pc = "done" /\ LoadStateReturned
            /\ err \in {NoErr, ErrFormatBase, ErrValSet, ErrNilView}
            /\ provenValSet # <<>>

(***************************************************************************)
(* C3: a trio after the first that checkSnapshot has passed has its parent *)
(* links and its HCC links, and the votes of its Third.HCC finalize its    *)
(* Second under the validator set the trios before it establish; the       *)
(* proven set moves to the set of that trio only in a step in which those  *)
(* votes hold under the set it moves from.                                 *)
(***************************************************************************)
C3_Links(trio) ==
    /\ trio.Second.Header.Parent = HeaderHash(trio.First.Header)
    /\ trio.Third.Header.Parent = HeaderHash(trio.Second.Header)
    /\ trio.Second.Header.HCC.BlockHash = HeaderHash(trio.First.Header)
    /\ trio.Third.Header.HCC.BlockHash = HeaderHash(trio.Second.Header)

C3_Passed ==
    \A i \in 2..NumTrios :
        TrioPassed(i) =>
            /\ C3_Links(metadata.BlockTrios[i])
            /\ VotesFinalize(EstablishedSet(i - 1), metadata.BlockTrios[i].Second.Header,
                             metadata.BlockTrios[i].Third.Header.HCC.Votes)

C3_Rotation ==
    (pc = "checkTrios" /\ idx > 1 /\ idx' = idx + 1) =>
        /\ provenValSet[1] = EstablishedSet(idx - 1)
        /\ VotesFinalize(provenValSet[1], metadata.BlockTrios[idx].Second.Header,
                         metadata.BlockTrios[idx].Third.Header.HCC.Votes)
        /\ provenValSet'[1] = EstablishedSet(idx)

C3_VotesBeforeRotation == [](C3_Passed) /\ [][C3_Rotation]_vars

\* a trio has passed whose votes are those of validators 2 and 3, and the
\* set has moved on to one without validator 3
C3_Witness ==
    /\ NumTrios = 2
    /\ TrioPassed(2)
    /\ provenValSet[1] # EstablishedSet(1)
    /\ \E v \in metadata.BlockTrios[2].Third.Header.HCC.Votes : v.ID = 3

(***************************************************************************)
(* C4: a snapshot is loaded only if the VoteSet of the tail trio's Third   *)
(* finalizes that Third under the final proven validator set.              *)
(***************************************************************************)
C4_TailVotesValidated ==
    (pc = "saveTrios" \/ Loaded) =>
        VotesFinalize(provenValSet[1], TailBlockTrio.Third.Header, TailBlockTrio.Third.VoteSet)

(***************************************************************************)
(* C5: a validator set is derived, and a header returned, only for a       *)
(* metadata whose first trio has the genesis block as its Second; when it  *)
(* has not, and the state hash is right, the load fails with the bad       *)
(* genesis error.  The first trio passes whatever its links are.           *)
(***************************************************************************)
Anchored ==
    /\ NumTrios > 0
    /\ metadata.BlockTrios[1].Second.Header.Height = genesisBlockHeight
    /\ HeaderHash(metadata.BlockTrios[1].Second.Header) = mainnetGenesisBlockHash

C5_GenesisAnchor ==
    /\ provenValSet # <<>> => Anchored
    /\ Loaded => Anchored
    /\ (CheckSnapshotOver /\ NumTrios > 0 /\ ~Anchored
            /\ hash = TailBlockTrio.Second.Header.StateHash) =>
        /\ pc = "done"
        /\ err \in {ErrGenesisHeight, ErrGenesisHash}
        /\ provenValSet = <<>>
    /\ (pc = "done" /\ NumTrios = 1) =>
        err \notin {ErrParentLink, ErrHCCLink, ErrNoMajority, ErrVoteInvalid,
                    ErrVoteBlock, ErrVoteValidator, ErrProof}

\* the genesis trio alone is loaded, and its links are no links
C5_Witness ==
    /\ Loaded
    /\ NumTrios = 1
    /\ LinkError(metadata.BlockTrios[1]) # NoErr

(***************************************************************************)
(* C6: the trios are stored only if the validator set the last trio        *)
(* establishes is the set selected from the pool of the last outermost     *)
(* view of the file; when all else holds and the sets differ the load      *)
(* fails with the validator set error.                                     *)
(***************************************************************************)
OutermostValidatorSet ==
    SelectTopStakeHoldersAsValidators(
        GetValidatorCandidatePool(ScopeLeaves(file, LastTopScope(file))))

C6_FinalValidatorSet ==
    /\ (pc = "saveTrios" \/ Loaded) =>
        /\ provenValSet[1] = EstablishedSet(NumTrios)
        /\ EstablishedSet(NumTrios) = OutermostValidatorSet
    /\ (pc = "done" /\ NumTrios > 0 /\ TrioPassed(NumTrios)
            /\ EstablishedSet(NumTrios) # OutermostValidatorSet) =>
        err = ErrValSet

\* all trios pass and the proven set is not the one of the loaded state
C6_Witness ==
    /\ pc = "done"
    /\ err = ErrValSet
    /\ NumTrios = 2
    /\ EstablishedSet(2) # OutermostValidatorSet

(***************************************************************************)
(* C7: loadState returns without an error only for a well nested file      *)
(* read to its end; while it reads, its stack holds the views the records  *)
(* have opened and not closed; an SVEnd or a leaf that finds no open view  *)
(* fails with the missing storeview error, an SVEnd of another height than *)
(* the innermost open view with the heights error, the end of the file     *)
(* inside a view with the unhandled storeview error.                       *)
(***************************************************************************)
StackHeights(stack) == [i \in 1..Len(stack) |-> stack[i].height]

C7_WellNested ==
    LET n == Nesting(file)
    IN  /\ pc = "loadState" => n.kind = "none" /\ StackHeights(svStack) = n.open
        /\ (pc = "checkSnapshot" /\ err = NoErr) => eof /\ WellNested(file)
        /\ (pc = "done" /\ n.kind \in {"UnmatchedEnd", "LeafOutsideView"}) =>
            n.at = Len(file) /\ err = ErrMissing
        /\ (pc = "done" /\ n.kind = "HeightMismatch") =>
            n.at = Len(file) /\ err = ErrHeights
        /\ (pc = "done" /\ n.kind = "none" /\ eof) =>
            n.open # <<>> /\ err = ErrUnhandled
        /\ (pc = "done" /\ n.kind = "none" /\ ~eof) =>
            err \in {ErrAccountRoot, ErrParseAccount, ErrNilAccount, ErrReadRecord}

\* an SVEnd of height 1 has met an open view of height 0 inside another
C7_Witness ==
    /\ pc = "done"
    /\ err = ErrHeights
    /\ Len(Nesting(file).open) = 2

(***************************************************************************)
(* C8: the snapshots the writer produces, and the orders of their records  *)
(* that are not well nested.                                               *)
(***************************************************************************)
WriterSnapshots ==
    {<<StartRecord(0), StorageLeaf, EndRecord(0)>>,
     <<StartRecord(0), AccountLeafA, StartRecord(0), StorageLeaf, EndRecord(0), EndRecord(0)>>,
     <<StartRecord(0), StorageLeaf, EndRecord(0), StartRecord(1), StorageLeaf, EndRecord(1)>>}

Reorderings(f) == {[i \in 1..Len(f) |-> f[p[i]]] : p \in Permutations(1..Len(f))}

BrokenReorderings ==
    {q \in UNION {Reorderings(f) : f \in WriterSnapshots} : ~WellNested(q)}

IsPrefix(f, g) == Len(f) <= Len(g) /\ SubSeq(g, 1, Len(f)) = f

\* loadState has run on the file q, all of whose records can be read, to
\* its end or to its first error
RanOn(q) ==
    \/ eof /\ file = q
    \/ ~eof /\ pc = "done" /\ err # ErrReadRecord /\ IsPrefix(file, q)

\* C8 as the specification states it: only the missing storeview error
\* (UnmatchedEnd) and the unhandled storeview error (UnclosedView)
C8_OnlyUnmatchedOrUnclosed ==
    \A q \in BrokenReorderings :
        RanOn(q) => pc = "done" /\ err \in {ErrMissing, ErrUnhandled}

\* C8, amended: a reordering that is not well nested is never loaded; the
\* load ends with the missing storeview, the unhandled storeview or the
\* heights error, or earlier with the account root error, the account
\* parse error or the nil account panic; the writer's own order is loaded
C8_BrokenOrderFails ==
    /\ \A q \in BrokenReorderings :
        RanOn(q) =>
            /\ pc = "done"
            /\ err \in {ErrMissing, ErrUnhandled, ErrHeights,
                        ErrAccountRoot, ErrParseAccount, ErrNilAccount}
    /\ \A f \in WriterSnapshots :
        (eof /\ file = f) => pc = "checkSnapshot" /\ err = NoErr

\* a reordering has failed on the height of an SVEnd
C8_Witness ==
    /\ pc = "done"
    /\ err = ErrHeights
    /\ \E q \in BrokenReorderings : RanOn(q)

(***************************************************************************)
(* C9: when the checks of a snapshot have passed, the load returns a       *)
(* header and the store holds every trio but the last under "btrio/" and   *)
(* the decimal digits of the height of its First, and no other trio.       *)
(***************************************************************************)
DecimalDigits(n) == FormatDigits(n, 10)

ValidationPassed == pc = "saveTrios" \/ (pc = "done" /\ err \in {NoErr, ErrFormatBase})

C9_TriosStored ==
    (pc = "done" /\ ValidationPassed) =>
        /\ ret # <<>>
        /\ \A i \in 1..(NumTrios - 1) :
            Get(kvTrios, BlockTrioStoreKeyPrefix
                            \o DecimalDigits(metadata.BlockTrios[i].First.Header.Height))
                = {metadata.BlockTrios[i]}
        /\ Cardinality(kvTrios) <= NumTrios - 1

(***************************************************************************)
(* C10: a load that returns a header returns the header of the tail        *)
(* trio's Second and has put that block, directly finalized and without    *)
(* children, under its hash; the First of the tail is put, with the Second *)
(* as its child, exactly when the Second is not at the genesis height; a   *)
(* snapshot of the genesis trio alone leaves one block and no trio.        *)
(***************************************************************************)
C10_TailBlocks ==
    Loaded =>
        LET first == TailBlockTrio.First.Header
            second == TailBlockTrio.Second.Header
        IN  /\ ret = <<second>>
            /\ \E b \in Get(kvBlocks, HeaderHash(second)) :
                /\ b.Block = second
                /\ b.Status = BlockStatusDirectlyFinalized
                /\ b.Children = <<>>
            /\ Cardinality(Get(kvBlocks, HeaderHash(second))) = 1
            /\ (second.Height # genesisBlockHeight) <=>
                (\E b \in Get(kvBlocks, HeaderHash(first)) :
                    /\ b.Block = first
                    /\ b.Status = BlockStatusDirectlyFinalized
                    /\ b.Children = <<HeaderHash(second)>>)
            /\ (NumTrios = 1 /\ second.Height = genesisBlockHeight) =>
                Cardinality(kvBlocks) = 1 /\ kvTrios = {}

\* the genesis trio alone has been loaded
C10_Witness ==
    /\ Loaded
    /\ NumTrios = 1
    /\ Cardinality(kvBlocks) = 1
    /\ ret = <<GenesisHeader>>

(***************************************************************************)
(* C11: the stages of loadSnapshot run one after the other and the first   *)
(* failure ends the run: a run that ends with an error has put no trio and *)
(* no block into the store and has run no stage after the failing one; the *)
(* store holds a trio or a block only of a snapshot that passes all the    *)
(* validity checks: state hash, genesis anchor, links, votes and proof of  *)
(* every later trio, votes of the tail, final validator set.               *)
(***************************************************************************)
CheckErrors ==
    {ErrStateHash, ErrGenesisHeight, ErrGenesisHash, ErrParentLink, ErrHCCLink,
     ErrNoMajority, ErrVoteInvalid, ErrVoteBlock, ErrVoteValidator, ErrProof, ErrValSet,
     ErrNoTrios, ErrNilView}

NothingStored == kvTrios = {} /\ kvBlocks = {} /\ ret = <<>>
NothingChecked == idx = 0 /\ provenValSet = <<>>
NothingRead ==
    /\ file = <<>>
    /\ ~eof
    /\ svStack = <<>>
    /\ sv = <<>>
    /\ trieNodes = {}

\* loadSnapshot has come to a return or to a panic
Over == pc \in {"done", "returned"}

\* the order of the stages, and what a failed run leaves behind
C11_Sequential ==
    /\ pc \in {"open", "readMetadata"} => NothingRead /\ NothingChecked /\ NothingStored
    /\ (Over /\ err = ErrOpen) => NothingRead /\ NothingChecked /\ NothingStored
    /\ pc = "loadState" => NothingChecked /\ NothingStored
    /\ pc \in {"checkSnapshot", "checkTrios"} => LoadStateReturned /\ NothingStored
    /\ pc = "saveTrios" => LoadStateReturned /\ idx >= 1 /\ provenValSet # <<>>
    /\ (Over /\ err = ErrMetadata) => NothingRead /\ NothingChecked /\ NothingStored
    /\ (Over /\ err \in LoaderErrors) => NothingChecked /\ NothingStored
    /\ (Over /\ err \in CheckErrors) => LoadStateReturned /\ NothingStored
    /\ (Over /\ err # NoErr) => NothingStored
    /\ Over => err \in {NoErr, ErrOpen, ErrMetadata, ErrFormatBase} \cup LoaderErrors \cup CheckErrors

\* the validity checks of a snapshot, read off the metadata and the file
AllChecksPass ==
    /\ NumTrios > 0
    /\ WellNested(file)
    /\ TopScopes(file) # {}
    /\ RootOf(ScopeLeaves(file, LastTopScope(file))) = TailBlockTrio.Second.Header.StateHash
    /\ Anchored
    /\ \A i \in 2..NumTrios :
        LET trio == metadata.BlockTrios[i]
        IN  /\ C3_Links(trio)
            /\ VotesFinalize(EstablishedSet(i - 1), trio.Second.Header,
                             trio.Third.Header.HCC.Votes)
            /\ getValidatorSetFromVCPProof(trio.First.Header.StateHash, trio.First.Proof) # <<>>
    /\ VotesFinalize(EstablishedSet(NumTrios), TailBlockTrio.Third.Header,
                     TailBlockTrio.Third.VoteSet)
    /\ EstablishedSet(NumTrios) = OutermostValidatorSet

C11_FirstFailureAborts ==
    /\ C11_Sequential
    /\ (kvTrios # {} \/ kvBlocks # {}) => AllChecksPass

\* all but the votes of the tail: what checkSnapshot does enforce
C11_StoredAfterEnforcedChecks ==
    (kvTrios # {} \/ kvBlocks # {}) =>
        /\ NumTrios > 0
        /\ WellNested(file)
        /\ RootOf(ScopeLeaves(file, LastTopScope(file))) = TailBlockTrio.Second.Header.StateHash
        /\ Anchored
        /\ EstablishedSet(NumTrios) = OutermostValidatorSet

(***************************************************************************)
(* C12: when ValidateSnapshot has returned, by a header, by an error or by *)
(* a panic, none of the temporary directories it made is left and the      *)
(* handle of the snapshot file is released.                                *)
(***************************************************************************)
C12_NoLastingEffect ==
    pc = "validated" => tmpDirs = {} /\ ~fileOpen

\* what does hold: the handle is released and the two directories of the
\* database are gone
C12_DatabaseDirsRemoved ==
    pc = "validated" =>
        /\ ~fileOpen
        /\ mainTmpDBPath \notin tmpDirs
        /\ refTmpDBPath \notin tmpDirs

Holds(block, tx) == \E i \in 1..Len(block.Txs) : block.Txs[i] = tx

\* the calls that added a block holding tx
AddedWith(tx) ==
    {i \in 1..Len(chainOps) :
        chainOps[i].op = "AddBlock" /\ chainOps[i].ok /\ Holds(chainOps[i].block, tx)}

OnlyAddBlock == \A i \in 1..Len(chainOps) : chainOps[i].op = "AddBlock"

ClosedAccountStorage ==
    /\ file # <<>>
    /\ ~eof
    /\ err # ErrReadRecord
    /\ IsEnd(file[Len(file)])
    /\ LET before == Nesting(SubSeq(file, 1, Len(file) - 1))
           depth == Len(before.open)
       IN  /\ before.kind = "none"
           /\ depth >= 2
           /\ before.open[depth] = HeightOf(file[Len(file)])
           /\ before.open[depth - 1] = HeightOf(file[Len(file)])

C15_RootCheckedOrError ==
    ClosedAccountStorage =>
        \/ /\ pc = "loadState"
           /\ err = NoErr
           /\ \E i \in 1..Len(file) :
                IsAccountLeaf(file[i]) /\ AccountFromBytes(file[i].V)[1].Root = hash
        \/ pc = "done" /\ err = ErrAccountRoot

\* what does hold: the outcome is one of those two or the panic, and the
\* panic is the outcome exactly when no account is pending
C15_RootCheckedOrPanic ==
    ClosedAccountStorage =>
        \/ pc = "loadState" /\ err = NoErr
        \/ pc = "done" /\ err \in {ErrAccountRoot, ErrNilAccount}

(***************************************************************************)
(* C16: account leaves that follow one another in a view are all accepted, *)
(* and the pending account is the one of the last of them: right after an  *)
(* account leaf the pending account is that account, and a scope closed    *)
(* inside a view of its height is checked against the account leaf that    *)
(* comes last before the scope.                                            *)
(***************************************************************************)
\* the record that opens the scope the last record of f closes
OpenerOfLast(f) ==
    CHOOSE i \in 1..Len(f) : IsStart(f[i]) /\ ScopeEnd(f, i) = Len(f)

\* the account leaves before record s with leaves only between them and s
AccountsBefore(f, s) ==
    {j \in 1..(s - 1) :
        /\ IsAccountLeaf(f[j])
        /\ \A k \in (j + 1)..(s - 1) : IsLeaf(f[k])}

LastAccountBefore(f, s) ==
    CHOOSE j \in AccountsBefore(f, s) : \A k \in AccountsBefore(f, s) : k <= j

C16_PendingOverwritten ==
    /\ (pc = "loadState" /\ file # <<>> /\ IsAccountLeaf(file[Len(file)])) =>
        account = AccountFromBytes(file[Len(file)].V)
    /\ (ClosedAccountStorage /\ AccountsBefore(file, OpenerOfLast(file)) # {}) =>
        LET j == LastAccountBefore(file, OpenerOfLast(file))
            declared == AccountFromBytes(file[j].V)[1].Root
            root == RootOf(ScopeLeaves(file, OpenerOfLast(file)))
        IN  IF root = declared
            THEN pc = "loadState" /\ err = NoErr
            ELSE pc = "done" /\ err = ErrAccountRoot

\* what does hold: the pending account is the first account leaf since the
\* last SVEnd, and the scope is checked against that one
FirstAccountSince(f) ==
    CHOOSE j \in 1..Len(f) :
        /\ IsLeaf(f[j]) /\ HasPrefix(f[j].K, AccountKeyPrefix)
        /\ \A k \in j..Len(f) : ~IsEnd(f[k])
        /\ \A k \in 1..(j - 1) :
            (IsLeaf(f[k]) /\ HasPrefix(f[k].K, AccountKeyPrefix)) =>
                \E e \in (k + 1)..(j - 1) : IsEnd(f[e])

C16_PendingIsFirst ==
    (pc = "loadState" /\ account # <<>>) =>
        account = AccountFromBytes(file[FirstAccountSince(file)].V)

(***************************************************************************)
(* C17: in a run of loadState a view is saved at most once; Save is called *)
(* on a view only while the SVEnd that closes its scope is handled, and    *)
(* that SVEnd has the height of the record that made the view; Set is      *)
(* called only on the innermost view open at that record and never on a    *)
(* view after its Save; no saved view is on the stack.                     *)
(***************************************************************************)
SavesOf(id) == {p \in 1..Len(viewCalls) : viewCalls[p].op = "Save" /\ viewCalls[p].view = id}

\* the scopes of f open before record number at, from the file alone
OpenBefore(f, at) ==
    {i \in 1..(at - 1) :
        /\ IsStart(f[i])
        /\ ScopeEnd(SubSeq(f, 1, at - 1), i) = 0}

C17_SavedOnceThenSealed ==
    /\ \A p \in 1..Len(viewCalls) :
        LET c == viewCalls[p]
        IN  /\ c.view \in 1..Len(file) /\ IsStart(file[c.view])
            /\ c.at \in 1..Len(file) /\ c.view < c.at
            /\ c.op = "Save" =>
                /\ Cardinality(SavesOf(c.view)) = 1
                /\ IsEnd(file[c.at])
                /\ ScopeEnd(file, c.view) = c.at
                /\ HeightOf(file[c.at]) = HeightOf(file[c.view])
            /\ c.op = "Set" =>
                /\ IsLeaf(file[c.at])
                /\ c.view \in OpenBefore(file, c.at)
                /\ \A i \in OpenBefore(file, c.at) : i <= c.view
                /\ \A q \in SavesOf(c.view) : p < q
    /\ \A k \in 1..Len(svStack) : SavesOf(svStack[k].id) = {}
    /\ \A i \in 1..Len(file) :
        (IsEnd(file[i]) /\ Nesting(SubSeq(file, 1, i)).kind = "HeightMismatch") =>
            \A p \in 1..Len(viewCalls) : viewCalls[p].at # i

\* a view inside another has been saved after a leaf was set in each
C17_Witness ==
    /\ Len(viewCalls) = 4
    /\ viewCalls[1].op = "Set" /\ viewCalls[1].view = 1
    /\ viewCalls[2].op = "Set" /\ viewCalls[2].view = 3
    /\ viewCalls[3].op = "Save" /\ viewCalls[3].view = 3
    /\ viewCalls[4].op = "Save" /\ viewCalls[4].view = 1

(***************************************************************************)
(* C18: when loadState returns without an error, the view it returns is a  *)
(* view, the one of the last outermost scope of the file, and the hash it  *)
(* returns is the root the Save of that view returned; so it is for a file *)
(* without records and for a file of several outermost scopes.             *)
(***************************************************************************)
\* the view and the hash returned are those of the last outermost scope
ReturnsLastOutermost ==
    /\ sv # <<>>
    /\ TopScopes(file) # {}
    /\ sv[1].id = LastTopScope(file)
    /\ sv[1].content = ScopeLeaves(file, LastTopScope(file))
    /\ hash = RootOf(sv[1].content)
    /\ viewCalls # <<>>
    /\ viewCalls[Len(viewCalls)] = ViewCall("Save", sv[1], Len(file))

C18_ReturnsOutermostView ==
    (pc = "checkSnapshot" /\ err = NoErr) => ReturnsLastOutermost

\* what does hold: so it is for every file but the one without records,
\* for which no view and the zero hash are returned
C18_ReturnsOutermostOrNil ==
    (pc = "checkSnapshot" /\ err = NoErr) =>
        IF file = <<>> THEN sv = <<>> /\ hash = ZeroHash ELSE ReturnsLastOutermost

(***************************************************************************)
(* C19: the caller can tell the failures of the nesting apart by the error *)
(* returned: the error of an SVEnd that finds no open view is not the      *)
(* error of a leaf that finds none, and neither of them is the heights     *)
(* error or the unhandled storeview error.                                 *)
(***************************************************************************)
C19_KindsDistinct ==
    LET n == Nesting(file)
    IN  /\ (pc = "done" /\ n.kind = "UnmatchedEnd") =>
            err \notin {ErrMissingAtLeaf, ErrHeights, ErrUnhandled}
        /\ (pc = "done" /\ n.kind = "LeafOutsideView") =>
            err \notin {ErrMissingAtEnd, ErrHeights, ErrUnhandled}
        /\ (pc = "done" /\ n.kind = "HeightMismatch") =>
            err \notin {ErrMissingAtEnd, ErrMissingAtLeaf, ErrUnhandled}
        /\ (pc = "done" /\ n.kind = "none" /\ eof) =>
            err \notin {ErrMissingAtEnd, ErrMissingAtLeaf, ErrHeights}

\* what does hold: the heights error and the unhandled storeview error
\* are told apart from each other and from the missing storeview error
C19_ThreeKindsDistinct ==
    LET n == Nesting(file)
    IN  /\ (pc = "done" /\ n.kind \in {"UnmatchedEnd", "LeafOutsideView"}) =>
            err \notin {ErrHeights, ErrUnhandled}
        /\ (pc = "done" /\ n.kind = "HeightMismatch") =>
            err \notin {ErrMissing, ErrUnhandled}
        /\ (pc = "done" /\ n.kind = "none" /\ eof) =>
            err \notin {ErrMissing, ErrHeights}

(***************************************************************************)
(* C20: loadSnapshot ends, for every metadata, with a header or with a     *)
(* returned error; a metadata without block trios is refused with a        *)
(* returned error before the tail trio is looked at, and is never loaded.  *)
(***************************************************************************)
\* the metadata record has been read and holds no trio
EmptyTrioList ==
    /\ pc \notin {"open", "readMetadata"}
    /\ err \notin {ErrOpen, ErrMetadata}
    /\ NumTrios = 0

C20_EmptyTriosRejected ==
    /\ EmptyTrioList => pc \notin {"checkTrios", "saveTrios"}
    /\ (EmptyTrioList /\ Over) => err # NoErr /\ err \notin Panics
    /\ (EmptyTrioList /\ Over /\ LoadStateReturned) => provenValSet = <<>> /\ NothingStored

\* what does hold: such a metadata is never loaded, and once its records
\* are read the run ends in the index panic of checkSnapshot
C20_EmptyTriosNeverLoaded ==
    /\ EmptyTrioList => pc \notin {"checkTrios", "saveTrios"}
    /\ (EmptyTrioList /\ Over) => err # NoErr /\ NothingStored
    /\ (EmptyTrioList /\ Over /\ LoadStateReturned) => err = ErrNoTrios

====
